---- MODULE Spec2Model ----
(***************************************************************************)
(* Takagi-Sugeno fuzzy inference engine of src/main.py: triangular         *)
(* membership functions, fuzzy variables, rules and FuzzySystem.infer.     *)
(*                                                                         *)
(* Numbers are exact rationals <<n, d>> in lowest terms with d > 0.        *)
(* Python evaluates the same expressions in IEEE-754 doubles; rounding of  *)
(* the individual operations is not modelled.                              *)
(***************************************************************************)
EXTENDS Integers, Sequences, FiniteSets, TLC

VARIABLES fuzzy_variables, fuzzy_rules, op, outcome, remembered

vars == <<fuzzy_variables, fuzzy_rules, op, outcome, remembered>>

(***************************************************************************)
(* Bounds of the model                                                     *)
(***************************************************************************)
MaxPoint == 3

MaxMfs == 3

MaxVars == 2

(***************************************************************************)
(* Operator tokens, main.py lines 5-7                                      *)
(***************************************************************************)
OR == "OR"

AND == "AND"

NONE == "NONE"

(***************************************************************************)
(* Rational arithmetic                                                     *)
(***************************************************************************)
Abs(n) == IF n < 0 THEN -n ELSE n

RECURSIVE GCD(_, _)
GCD(a, b) == IF b = 0 THEN a ELSE GCD(b, a % b)

\* Python true division n / d for d # 0, in lowest terms
Frac(n, d) ==
    LET g == GCD(Abs(n), Abs(d))
        s == IF d < 0 THEN -1 ELSE 1
    IN  <<(s * n) \div g, (s * d) \div g>>

Num(n) == <<n, 1>>

RatAdd(a, b) == Frac(a[1] * b[2] + b[1] * a[2], a[2] * b[2])

RatMul(a, b) == Frac(a[1] * b[1], a[2] * b[2])

RatLeq(a, b) == a[1] * b[2] <= b[1] * a[2]

RatIsZero(a) == a[1] = 0

\* np.max over a non-empty list
RECURSIVE np_max(_)
np_max(s) ==
    IF Len(s) = 1 THEN s[1]
    ELSE LET m == np_max(Tail(s)) IN IF RatLeq(m, s[1]) THEN s[1] ELSE m

\* np.min over a non-empty list
RECURSIVE np_min(_)
np_min(s) ==
    IF Len(s) = 1 THEN s[1]
    ELSE LET m == np_min(Tail(s)) IN IF RatLeq(s[1], m) THEN s[1] ELSE m

\* builtin sum(weights)
RECURSIVE sum(_)
sum(s) == IF Len(s) = 0 THEN Num(0) ELSE RatAdd(s[1], sum(Tail(s)))

\* np.dot(outputs, weights)
RECURSIVE np_dot(_, _)
np_dot(a, b) ==
    IF Len(a) = 0 THEN Num(0)
    ELSE RatAdd(RatMul(a[1], b[1]), np_dot(Tail(a), Tail(b)))

(***************************************************************************)
(* Result of a call: kind "ok" carries the returned value in val (Num(0)   *)
(* stands for None); any other kind is the exception raised, or "nan" /    *)
(* "inf" for a float that is no number.  An infer call also carries the    *)
(* lists it had built when it ended (they are what its print calls show).  *)
(***************************************************************************)
Result(kind, val, degrees, weights, outputs) ==
    [kind |-> kind, val |-> val, membership_degrees |-> degrees,
     weights |-> weights, outputs |-> outputs]

Ok(v) == Result("ok", v, <<>>, <<>>, <<>>)

Raise(k) == Result(k, Num(0), <<>>, <<>>, <<>>)

\* x / y of two Python numbers given as integers
TrueDiv(n, d) == IF d = 0 THEN Raise("ZeroDivisionError") ELSE Ok(Frac(n, d))

(***************************************************************************)
(* FuzzyMembership.__call__                                                *)
(***************************************************************************)
CallMutClosedLeft(points, x) ==
    IF x < points[1]
    THEN Ok(IF points[1] = points[2] THEN Num(1) ELSE Num(0))
    ELSE IF points[1] <= x /\ x <= points[2]
    THEN TrueDiv(x - points[1], points[2] - points[1])
    ELSE IF points[2] < x /\ x <= points[3]
    THEN TrueDiv(points[3] - x, points[3] - points[2])
    ELSE Ok(Num(0))

CallMutFalling(points, x) ==
    IF x <= points[1]
    THEN Ok(IF points[1] = points[2] THEN Num(1) ELSE Num(0))
    ELSE IF points[1] < x /\ x <= points[2]
    THEN TrueDiv(x - points[1], points[2] - points[1])
    ELSE IF points[2] < x /\ x <= points[3]
    THEN TrueDiv(points[3] - x, points[3] - points[1])
    ELSE Ok(Num(0))

Call(points, x) ==
    IF x <= points[1]
    THEN Ok(IF points[1] = points[2] THEN Num(1) ELSE Num(0))
    ELSE IF points[1] < x /\ x <= points[2]
    THEN TrueDiv(x - points[1], points[2] - points[1])
    ELSE IF points[2] < x /\ x <= points[3]
    THEN TrueDiv(points[3] - x, points[3] - points[2])
    ELSE Ok(Num(0))

(***************************************************************************)
(* Objects                                                                 *)
(***************************************************************************)
FuzzyMembership(name, points) == [name |-> name, points |-> points]

FuzzyVariable(name, membership_functions) ==
    [name |-> name, membership_functions |-> membership_functions]

FuzzyRule(antecedent, operators, consequent) ==
    [antecedent |-> antecedent, operators |-> operators, consequent |-> consequent]

\* `name in objects` for a str and a list of FuzzyMembership / FuzzyVariable:
\* list.__contains__ compares with ==, and neither class defines __eq__, so a
\* str never equals an element.
StrEqualsObject(name, obj) == FALSE

StrInObjects(name, objs) == \E i \in 1..Len(objs) : StrEqualsObject(name, objs[i])

\* index of the first object whose .name is name, 0 when the for loop ends
RECURSIVE FirstNamed(_, _, _)
FirstNamed(objs, name, i) ==
    IF i > Len(objs) THEN 0
    ELSE IF objs[i].name = name THEN i
    ELSE FirstNamed(objs, name, i + 1)

\* list.remove(objs[i])
RemoveAt(objs, i) == [j \in 1..(Len(objs) - 1) |-> IF j < i THEN objs[j] ELSE objs[j + 1]]

NoObject == [name |-> "", points |-> <<>>, membership_functions |-> <<>>]

Found(obj) == [kind |-> "ok", obj |-> obj]

NotFound == [kind |-> "ValueError", obj |-> NoObject]

\* FuzzyVariable.get_membership_function, as a function of the variable
get_membership_function(fv, name) ==
    LET i == FirstNamed(fv.membership_functions, name, 1)
    IN  IF i = 0 THEN NotFound ELSE Found(fv.membership_functions[i])

\* FuzzySystem.get_fuzzy_variable, as a function of the list
get_fuzzy_variable(fvs, name) ==
    LET i == FirstNamed(fvs, name, 1)
    IN  IF i = 0 THEN NotFound ELSE Found(fvs[i])

(***************************************************************************)
(* FuzzySystem.infer                                                       *)
(***************************************************************************)
\* the rules' output methods, main.py lines 214-219; a call with the wrong
\* number of arguments raises TypeError
Consequent(f, arguments) ==
    IF f = "rule1_3"
    THEN IF Len(arguments) # 2 THEN Raise("TypeError")
         ELSE Ok(Frac(5 * (arguments[1] + arguments[2]), 4))
    ELSE IF Len(arguments) # 1 THEN Raise("TypeError")
         ELSE Ok(Frac(5 * arguments[1], 2))

\* values[antecedent[0]]
InputOf(values, name) ==
    IF name \in DOMAIN values THEN Ok(Num(values[name])) ELSE Raise("KeyError")

\* the inner for loop, lines 168-175, from antecedent k on
RECURSIVE AntecedentLoop(_, _, _, _, _, _)
AntecedentLoop(fvs, antecedent, values, k, arguments, membership_degrees) ==
    IF k > Len(antecedent)
    THEN [kind |-> "ok", arguments |-> arguments, membership_degrees |-> membership_degrees]
    ELSE
    LET name == antecedent[k][1]
        arg == InputOf(values, name)
        fv == get_fuzzy_variable(fvs, name)
        mf == get_membership_function(fv.obj, antecedent[k][2])
        degree == Call(mf.obj.points, arg.val[1])
        stop(kind) == [kind |-> kind, arguments |-> arguments,
                       membership_degrees |-> membership_degrees]
    IN  IF arg.kind # "ok" THEN stop(arg.kind)
        ELSE IF fv.kind # "ok" THEN stop(fv.kind)
        ELSE IF mf.kind # "ok" THEN stop(mf.kind)
        ELSE IF degree.kind # "ok" THEN stop(degree.kind)
        ELSE AntecedentLoop(fvs, antecedent, values, k + 1,
                            Append(arguments, arg.val[1]),
                            Append(membership_degrees, degree.val))

RuleWeightMutAlwaysMin(operators, membership_degrees) ==
    IF Len(operators) = 0
    THEN IF Len(membership_degrees) = 0 THEN Raise("IndexError")
         ELSE Ok(np_min(membership_degrees))
    ELSE IF Len(membership_degrees) = 0 THEN Raise("ValueError")
    ELSE IF operators[1] = OR THEN Ok(np_max(membership_degrees))
    ELSE Ok(np_min(membership_degrees))

\* the weight appended for one rule, lines 178-186
RuleWeight(operators, membership_degrees) ==
    IF Len(operators) = 0
    THEN IF Len(membership_degrees) = 0 THEN Raise("IndexError")
         ELSE Ok(membership_degrees[1])
    ELSE IF Len(membership_degrees) = 0 THEN Raise("ValueError")
    ELSE IF operators[1] = OR THEN Ok(np_max(membership_degrees))
    ELSE Ok(np_min(membership_degrees))

AggregateMutMean(outputs, weights) ==
    IF Len(weights) = 0 THEN Result("nan", Num(0), <<>>, weights, outputs)
    ELSE LET d == np_dot(outputs, weights)
         IN  Result("ok", Frac(d[1], d[2] * Len(weights)), <<>>, weights, outputs)

\* np.dot(outputs, weights) / sum(weights), line 190: a numpy scalar divided
\* by zero is nan (0/0) or inf, with a RuntimeWarning and no exception
Aggregate(outputs, weights) ==
    LET d == np_dot(outputs, weights)
        t == sum(weights)
    IN  IF RatIsZero(t)
        THEN Result(IF RatIsZero(d) THEN "nan" ELSE "inf", Num(0), <<>>, weights, outputs)
        ELSE Result("ok", Frac(d[1] * t[2], d[2] * t[1]), <<>>, weights, outputs)

\* the outer for loop, lines 165-188, from rule k on, then line 190
RECURSIVE RulesLoop(_, _, _, _, _, _, _)
RulesLoop(fvs, rules, values, k, degrees, weights, outputs) ==
    IF k > Len(rules)
    THEN [Aggregate(outputs, weights) EXCEPT !.membership_degrees = degrees]
    ELSE
    LET rule == rules[k]
        a == AntecedentLoop(fvs, rule.antecedent, values, 1, <<>>, <<>>)
        w == RuleWeight(rule.operators, a.membership_degrees)
        o == Consequent(rule.consequent, a.arguments)
    IN  IF a.kind # "ok" THEN Result(a.kind, Num(0), degrees, weights, outputs)
        ELSE IF w.kind # "ok" THEN Result(w.kind, Num(0), degrees, weights, outputs)
        ELSE IF o.kind # "ok"
        THEN Result(o.kind, Num(0), Append(degrees, a.membership_degrees),
                    Append(weights, w.val), outputs)
        ELSE RulesLoop(fvs, rules, values, k + 1, Append(degrees, a.membership_degrees),
                       Append(weights, w.val), Append(outputs, o.val))

infer(fvs, rules, values) == RulesLoop(fvs, rules, values, 1, <<>>, <<>>, <<>>)

(***************************************************************************)
(* The objects of the script, main.py lines 193-235, and the inputs the    *)
(* operations are called with                                              *)
(***************************************************************************)
Low == FuzzyMembership("Low", <<0, 0, 5>>)

Medium == FuzzyMembership("Medium", <<0, 5, 10>>)

High == FuzzyMembership("High", <<5, 10, 10>>)

food_quality == FuzzyVariable("Food Quality", <<Low, Medium, High>>)

service_quality == FuzzyVariable("Service Quality", <<Low, Medium, High>>)

tip_amount ==
    FuzzyVariable("Tip Amount", <<FuzzyMembership("Low", <<0, 0, 13>>),
                                  FuzzyMembership("Medium", <<0, 13, 25>>),
                                  FuzzyMembership("High", <<13, 25, 25>>)>>)

\* rules, lines 223-227
rules ==
    <<FuzzyRule(<<<<"Food Quality", "Low">>, <<"Service Quality", "Low">>>>, <<OR>>, "rule1_3"),
      FuzzyRule(<<<<"Service Quality", "Medium">>>>, <<>>, "rule2"),
      FuzzyRule(<<<<"Food Quality", "High">>, <<"Service Quality", "High">>>>, <<OR>>, "rule1_3")>>

\* the same rules with the last one an AND rule
rules_and ==
    <<rules[1], rules[2],
      FuzzyRule(<<<<"Food Quality", "High">>, <<"Service Quality", "High">>>>, <<AND>>, "rule1_3")>>

\* a two-term rule with no operator, and a one-term rule with the NONE token
rules_no_operator ==
    <<FuzzyRule(<<<<"Food Quality", "High">>, <<"Service Quality", "Low">>>>, <<>>, "rule1_3"),
      FuzzyRule(<<<<"Service Quality", "Medium">>>>, <<NONE>>, "rule2")>>

\* rules outside the data model: no antecedent term, and a consequent whose
\* arity is not the antecedent's length
rules_no_antecedent == <<FuzzyRule(<<>>, <<>>, "rule2")>>

rules_arity == <<rules[2], FuzzyRule(<<<<"Food Quality", "High">>>>, <<AND>>, "rule1_3")>>

RuleLists ==
    {<<>>, rules, <<rules[2]>>, rules_and, rules_no_operator, rules_no_antecedent, rules_arity}

\* FuzzyVariable objects handed to add_fuzzy_variable: the script's variables
\* as built, and the variable of line 200 before any function is added
NewVariables == {food_quality, service_quality, FuzzyVariable("Service Quality", <<>>)}

VariableNames == {"Food Quality", "Service Quality", "Tip Amount"}

\* FuzzyMembership objects handed to add_membership_function
NewMemberships == {Low, Medium, High, FuzzyMembership("Low", <<0, 0, 13>>)}

MembershipNames == {"Low", "Medium", "High"}

\* the values dicts handed to infer: lines 232-235, values outside every
\* support, a value on a slope, and dicts that lack one of the two keys
InputValues ==
    {[n \in {"Food Quality", "Service Quality"} |->
         IF n = "Food Quality" THEN f ELSE s] : f \in {7, 10, 15}, s \in {10, 15}}
    \cup {[n \in {"Service Quality"} |-> s] : s \in {10, 15}}
    \cup {[n \in {"Food Quality"} |-> 10]}

\* the points and arguments FuzzyMembership.__call__ is applied to
SortedPoints ==
    {p \in (0..MaxPoint) \X (0..MaxPoint) \X (0..MaxPoint) : p[1] <= p[2] /\ p[2] <= p[3]}

Arguments == (0 - 1)..(MaxPoint + 1)

(***************************************************************************)
(* State: the system's two lists; op and outcome, the last call made and   *)
(* what it returned or raised; remembered, one earlier infer call kept for *)
(* comparison: stale once the system has changed since, others once infer  *)
(* has been called with other values since.                                *)
(***************************************************************************)
NoCall == [name |-> "none", arg |-> <<>>]

NothingRemembered ==
    [set |-> FALSE, values |-> <<>>, outcome |-> Ok(Num(0)), stale |-> FALSE, others |-> FALSE]

Stale == IF remembered.set THEN [remembered EXCEPT !.stale = TRUE] ELSE remembered

\* FuzzySystem.__init__: an empty system or the script's, with a list of rules
Init ==
    /\ fuzzy_variables \in {<<>>, <<food_quality, service_quality, tip_amount>>}
    /\ fuzzy_rules \in RuleLists
    /\ op = NoCall
    /\ outcome = Ok(Num(0))
    /\ remembered = NothingRemembered

add_fuzzy_variable ==
    \E fuzzy_variable \in NewVariables :
        /\ Len(fuzzy_variables) < MaxVars
        /\ op' = [name |-> "add_fuzzy_variable", arg |-> fuzzy_variable]
        /\ IF StrInObjects(fuzzy_variable.name, fuzzy_variables)
           THEN /\ outcome' = Raise("ValueError")
                /\ UNCHANGED <<fuzzy_variables, remembered>>
           ELSE /\ fuzzy_variables' = Append(fuzzy_variables, fuzzy_variable)
                /\ outcome' = Ok(Num(0))
                /\ remembered' = Stale
        /\ UNCHANGED fuzzy_rules

get_fuzzy_variable_call ==
    \E name \in VariableNames :
        /\ op' = [name |-> "get_fuzzy_variable", arg |-> name]
        /\ outcome' = Raise(get_fuzzy_variable(fuzzy_variables, name).kind)
        /\ UNCHANGED <<fuzzy_variables, fuzzy_rules, remembered>>

delete_fuzzy_variable ==
    \E name \in VariableNames :
        /\ op' = [name |-> "delete_fuzzy_variable", arg |-> name]
        /\ IF ~StrInObjects(name, fuzzy_variables)
           THEN /\ outcome' = Raise("ValueError")
                /\ UNCHANGED <<fuzzy_variables, remembered>>
           ELSE LET fv == get_fuzzy_variable(fuzzy_variables, name)
                IN  IF fv.kind # "ok"
                    THEN /\ outcome' = Raise(fv.kind)
                         /\ UNCHANGED <<fuzzy_variables, remembered>>
                    ELSE /\ fuzzy_variables' =
                                RemoveAt(fuzzy_variables, FirstNamed(fuzzy_variables, name, 1))
                         /\ outcome' = Ok(Num(0))
                         /\ remembered' = Stale
        /\ UNCHANGED fuzzy_rules

\* a loop that pops the rules it processes: while self.fuzzy_rules: rule = pop(0)
InferMutPopsRules ==
    \E values \in InputValues, keep \in BOOLEAN :
        /\ op' = [name |-> "infer", arg |-> values]
        /\ outcome' = infer(fuzzy_variables, fuzzy_rules, values)
        /\ remembered' =
               IF keep /\ ~remembered.set
               THEN [set |-> TRUE, values |-> values, outcome |-> outcome',
                     stale |-> FALSE, others |-> FALSE]
               ELSE IF remembered.set /\ remembered.values # values
               THEN [remembered EXCEPT !.others = TRUE]
               ELSE remembered
        /\ fuzzy_rules' = SubSeq(fuzzy_rules, Len(outcome'.outputs) + 2, Len(fuzzy_rules))
        /\ UNCHANGED fuzzy_variables

Infer ==
    \E values \in InputValues, keep \in BOOLEAN :
        /\ op' = [name |-> "infer", arg |-> values]
        /\ outcome' = infer(fuzzy_variables, fuzzy_rules, values)
        /\ remembered' =
               IF keep /\ ~remembered.set
               THEN [set |-> TRUE, values |-> values, outcome |-> outcome',
                     stale |-> FALSE, others |-> FALSE]
               ELSE IF remembered.set /\ remembered.values # values
               THEN [remembered EXCEPT !.others = TRUE]
               ELSE remembered
        /\ UNCHANGED <<fuzzy_variables, fuzzy_rules>>

Next == add_fuzzy_variable \/ get_fuzzy_variable_call \/ delete_fuzzy_variable \/ Infer

Spec == Init /\ [][Next]_vars

(***************************************************************************)
(* A FuzzyVariable on its own: the variable of line 194 and the calls of   *)
(* its three methods                                                       *)
(***************************************************************************)
InitVariable ==
    /\ fuzzy_variables = <<FuzzyVariable("Food Quality", <<>>)>>
    /\ fuzzy_rules = <<>>
    /\ op = NoCall
    /\ outcome = Ok(Num(0))
    /\ remembered = NothingRemembered

add_membership_function ==
    \E membership_function \in NewMemberships :
        LET self == fuzzy_variables[1]
        IN  /\ Len(self.membership_functions) < MaxMfs
            /\ op' = [name |-> "add_membership_function", arg |-> membership_function]
            /\ IF StrInObjects(membership_function.name, self.membership_functions)
               THEN /\ outcome' = Raise("ValueError")
                    /\ UNCHANGED fuzzy_variables
               ELSE /\ fuzzy_variables' =
                           [fuzzy_variables EXCEPT ![1].membership_functions =
                               Append(@, membership_function)]
                    /\ outcome' = Ok(Num(0))
            /\ UNCHANGED <<fuzzy_rules, remembered>>

get_membership_function_call ==
    \E name \in MembershipNames :
        /\ op' = [name |-> "get_membership_function", arg |-> name]
        /\ outcome' = Raise(get_membership_function(fuzzy_variables[1], name).kind)
        /\ UNCHANGED <<fuzzy_variables, fuzzy_rules, remembered>>

delete_membership_function ==
    \E name \in MembershipNames :
        LET self == fuzzy_variables[1]
            mf == get_membership_function(self, name)
        IN  /\ op' = [name |-> "delete_membership_function", arg |-> name]
            /\ IF ~StrInObjects(name, self.membership_functions)
               THEN /\ outcome' = Raise("ValueError")
                    /\ UNCHANGED fuzzy_variables
               ELSE IF mf.kind # "ok"
               THEN /\ outcome' = Raise(mf.kind)
                    /\ UNCHANGED fuzzy_variables
               ELSE /\ fuzzy_variables' =
                           [fuzzy_variables EXCEPT ![1].membership_functions =
                               RemoveAt(@, FirstNamed(@, name, 1))]
                    /\ outcome' = Ok(Num(0))
            /\ UNCHANGED <<fuzzy_rules, remembered>>

NextVariable ==
    add_membership_function \/ get_membership_function_call \/ delete_membership_function

SpecVariable == InitVariable /\ [][NextVariable]_vars

(***************************************************************************)
(* A FuzzyMembership on its own: __call__ applied to sorted points         *)
(***************************************************************************)
InitMembership ==
    /\ fuzzy_variables = <<>>
    /\ fuzzy_rules = <<>>
    /\ op = NoCall
    /\ outcome = Ok(Num(0))
    /\ remembered = NothingRemembered

membership_call ==
    \E points \in SortedPoints, x \in Arguments :
        /\ op' = [name |-> "__call__", arg |-> [points |-> points, x |-> x]]
        /\ outcome' = Call(points, x)
        /\ UNCHANGED <<fuzzy_variables, fuzzy_rules, remembered>>

NextMembership == membership_call

SpecMembership == InitMembership /\ [][NextMembership]_vars

(***************************************************************************)
(* Properties                                                              *)
(***************************************************************************)
IsZero(w) == w[1] = 0

IsMaxOf(w, d) == (\A j \in 1..Len(d) : RatLeq(d[j], w)) /\ (\E j \in 1..Len(d) : d[j] = w)

IsMinOf(w, d) == (\A j \in 1..Len(d) : RatLeq(w, d[j])) /\ (\E j \in 1..Len(d) : d[j] = w)

\* the infer call reached line 190
Aggregated == op.name = "infer" /\ outcome.kind \in {"ok", "nan", "inf"}

\* C1 as stated: every weight infer appends is the single degree of a
\* one-term rule and, for a rule of two or more terms, the max of all degrees
\* if operators[0] is OR and the min of all degrees in every other case, the
\* empty operator list included.
C1_WeightMinWithoutOperator ==
    op.name = "infer" =>
        \A i \in 1..Len(outcome.weights) :
            LET d == outcome.membership_degrees[i]
                ops == fuzzy_rules[i].operators
                w == outcome.weights[i]
            IN  /\ Len(d) = 1 => w = d[1]
                /\ Len(d) >= 2 =>
                       IF Len(ops) > 0 /\ ops[1] = OR THEN IsMaxOf(w, d) ELSE IsMinOf(w, d)

\* C1 amended: every weight infer appends is the single degree of a one-term
\* rule; for a rule of two or more terms it is the first term's degree when
\* the operator list is empty, the max of all degrees when operators[0] is OR,
\* and the min of all degrees for any other operators[0].
C1_WeightByFirstOperator ==
    op.name = "infer" =>
        \A i \in 1..Len(outcome.weights) :
            LET d == outcome.membership_degrees[i]
                ops == fuzzy_rules[i].operators
                w == outcome.weights[i]
            IN  /\ Len(d) = 1 => w = d[1]
                /\ Len(d) >= 2 =>
                       IF Len(ops) = 0 THEN w = d[1]
                       ELSE IF ops[1] = OR THEN IsMaxOf(w, d)
                       ELSE IsMinOf(w, d)

\* C1 witness: infer has weighted a two-term rule without operator by its
\* first degree, which is not the min of its degrees
C1_Witness ==
    /\ op.name = "infer"
    /\ \E i \in 1..Len(outcome.weights) :
           /\ Len(outcome.membership_degrees[i]) >= 2
           /\ fuzzy_rules[i].operators = <<>>
           /\ outcome.weights[i] = outcome.membership_degrees[i][1]
           /\ ~IsMinOf(outcome.weights[i], outcome.membership_degrees[i])

\* C2: when every lookup succeeds and every rule's weight is 0, infer ends in
\* an error or returns a crisp value, never a silent not-a-number (stated for
\* a system that has rules).
C2_NoSilentNaN ==
    (/\ op.name = "infer"
     /\ Len(fuzzy_rules) > 0
     /\ Len(outcome.weights) = Len(fuzzy_rules)
     /\ \A i \in 1..Len(outcome.weights) : IsZero(outcome.weights[i]))
        => outcome.kind \notin {"nan", "inf"}

\* C3: add_membership_function(mf) with the name of a function the variable
\* already holds raises the duplicate-name error and leaves the list unchanged.
C3_DuplicateMembershipRejected ==
    [][(/\ op'.name = "add_membership_function"
        /\ \E i \in 1..Len(fuzzy_variables[1].membership_functions) :
               fuzzy_variables[1].membership_functions[i].name = op'.arg.name)
           => (outcome'.kind = "ValueError" /\ fuzzy_variables' = fuzzy_variables)]_vars

\* C4: delete_membership_function(name) raises not-found and leaves the list
\* unchanged only when no function has that name; when one has, the call
\* succeeds and removes exactly that function, the others keeping their order.
C4_DeleteMembership ==
    [][op'.name = "delete_membership_function" =>
           LET mfs == fuzzy_variables[1].membership_functions
               present == {i \in 1..Len(mfs) : mfs[i].name = op'.arg}
           IN  IF present = {}
               THEN outcome'.kind = "ValueError" /\ fuzzy_variables' = fuzzy_variables
               ELSE /\ outcome'.kind = "ok"
                    /\ \E i \in present :
                           /\ \A j \in present : i <= j
                           /\ fuzzy_variables'[1].membership_functions = RemoveAt(mfs, i)]_vars

\* C5: from the empty system on, whatever add_fuzzy_variable and
\* delete_fuzzy_variable calls were made, the names in fuzzy_variables are
\* pairwise distinct.
C5_VariableNamesDistinct ==
    \A i, j \in 1..Len(fuzzy_variables) :
        i # j => fuzzy_variables[i].name # fuzzy_variables[j].name

WellFormed(rule) ==
    /\ Len(rule.antecedent) >= 1
    /\ Len(rule.antecedent) = (IF rule.consequent = "rule1_3" THEN 2 ELSE 1)

\* some variable of the system has this name and holds a function of that name
Registered(variable, mf) ==
    \E i \in 1..Len(fuzzy_variables) :
        /\ fuzzy_variables[i].name = variable
        /\ \E j \in 1..Len(fuzzy_variables[i].membership_functions) :
               fuzzy_variables[i].membership_functions[j].name = mf

\* the first variable of that name holds a function of that name
RegisteredFirst(variable, mf) ==
    \E i \in 1..Len(fuzzy_variables) :
        /\ fuzzy_variables[i].name = variable
        /\ \A h \in 1..(i - 1) : fuzzy_variables[h].name # variable
        /\ \E j \in 1..Len(fuzzy_variables[i].membership_functions) :
               fuzzy_variables[i].membership_functions[j].name = mf

Antecedents ==
    UNION {{fuzzy_rules[i].antecedent[k] : k \in 1..Len(fuzzy_rules[i].antecedent)} :
              i \in 1..Len(fuzzy_rules)}

\* C7: with rules of the data model, an infer call raises exactly when some
\* rule's antecedent names a variable missing from values (KeyError) or a
\* variable or membership function not registered in the system at the time
\* of the call (ValueError), wherever that rule stands.
C7_LazyBinding ==
    (op.name = "infer" /\ \A i \in 1..Len(fuzzy_rules) : WellFormed(fuzzy_rules[i])) =>
        /\ outcome.kind \in {"ok", "nan", "KeyError", "ValueError"}
        /\ outcome.kind = "KeyError" => \E a \in Antecedents : a[1] \notin DOMAIN op.arg
        /\ outcome.kind = "ValueError" => \E a \in Antecedents : ~Registered(a[1], a[2])
        /\ outcome.kind \in {"ok", "nan"} =>
               \A a \in Antecedents : a[1] \in DOMAIN op.arg /\ Registered(a[1], a[2])

\* The same with a name resolved as get_fuzzy_variable resolves it, in the
\* first variable of that name: this one holds of infer.
LazyBindingFirstMatch ==
    (op.name = "infer" /\ \A i \in 1..Len(fuzzy_rules) : WellFormed(fuzzy_rules[i])) =>
        /\ outcome.kind \in {"ok", "nan", "KeyError", "ValueError"}
        /\ outcome.kind = "KeyError" => \E a \in Antecedents : a[1] \notin DOMAIN op.arg
        /\ outcome.kind = "ValueError" => \E a \in Antecedents : ~RegisteredFirst(a[1], a[2])
        /\ outcome.kind \in {"ok", "nan"} =>
               \A a \in Antecedents : a[1] \in DOMAIN op.arg /\ RegisteredFirst(a[1], a[2])

\* C8: for sorted points and every x, __call__ returns normally, with a
\* degree between 0 and 1.
C8_DegreeInUnitInterval ==
    op.name = "__call__" =>
        /\ outcome.kind = "ok"
        /\ 0 <= outcome.val[1]
        /\ outcome.val[1] <= outcome.val[2]

\* C8 witness: __call__ was applied at the point of a function whose three
\* points coincide, and returned 1
C8_Witness ==
    /\ op.name = "__call__"
    /\ op.arg.points[1] = op.arg.points[3]
    /\ op.arg.x = op.arg.points[1]
    /\ outcome = Ok(Num(1))

\* C9: for sorted points the degree is the triangular reference: 0 above p2;
\* at or below p0, 0 when p0 < p1 and 1 when p0 = p1; (x-p0)/(p1-p0) on
\* (p0, p1]; (p2-x)/(p2-p1) on (p1, p2]; so 1 at p1, and 0 at p2 unless p1 = p2.
C9_TriangularReference ==
    op.name = "__call__" =>
        LET p0 == op.arg.points[1]
            p1 == op.arg.points[2]
            p2 == op.arg.points[3]
            x == op.arg.x
            d == outcome.val
        IN  /\ outcome.kind = "ok"
            /\ x > p2 => d = Num(0)
            /\ (x <= p0 /\ p0 < p1) => d = Num(0)
            /\ (x <= p0 /\ p0 = p1) => d = Num(1)
            /\ (p0 < x /\ x <= p1) => d[1] * (p1 - p0) = d[2] * (x - p0)
            /\ (p1 < x /\ x <= p2) => d[1] * (p2 - p1) = d[2] * (p2 - x)
            /\ x = p1 => d = Num(1)
            /\ (x = p2 /\ p1 # p2) => d = Num(0)

\* C9 witness: __call__ was applied on the falling side of a function with
\* three different points, strictly inside it, and returned a proper fraction
C9_Witness ==
    /\ op.name = "__call__"
    /\ op.arg.points[1] < op.arg.points[2]
    /\ op.arg.points[2] < op.arg.x
    /\ op.arg.x < op.arg.points[3]
    /\ outcome.kind = "ok"
    /\ 0 < outcome.val[1]
    /\ outcome.val[1] < outcome.val[2]

\* C10: an infer call, whether it returns or raises, leaves fuzzy_variables
\* (with every variable's function list) and fuzzy_rules as they were, and its
\* outcome is that of the remembered call with the same values on the same
\* system, whatever infer calls were made in between.
C10_InferPure ==
    [][op'.name = "infer" =>
           /\ fuzzy_variables' = fuzzy_variables
           /\ fuzzy_rules' = fuzzy_rules
           /\ (remembered.set /\ ~remembered.stale /\ remembered.values = op'.arg)
                  => outcome' = remembered.outcome]_vars

\* C10 witness: infer was called with the remembered values again, after a
\* call with other values and no change of the system, with the same outcome
C10_Witness ==
    /\ op.name = "infer"
    /\ remembered.set
    /\ ~remembered.stale
    /\ remembered.others
    /\ remembered.values = op.arg
    /\ outcome = remembered.outcome
    /\ outcome.kind = "ok"

====
